---- MODULE Spec2Model ----
(***************************************************************************)
(* Model of the Register page (frontend/src/pages/register/Register.jsx):  *)
(* the two-step registration form, its validation chain and the POST to    *)
(* auth/register with its continuation.                                    *)
(*                                                                         *)
(* Strings are sequences of one-character strings.  The four format        *)
(* predicates and the two minimum lengths live in utils/regex-util, which  *)
(* is not among the sources; they are modelled from the specification.     *)
(***************************************************************************)
EXTENDS Naturals, Sequences, FiniteSets

\* At most this many register requests are awaiting their answer at once.
MaxInFlight == 2

-----------------------------------------------------------------------------
(* Field values the user can type. *)

NoText == << >>
EmailOne == <<"u", "@", "e", ".", "c">>
EmailNoAt == <<"u", "e", ".", "c">>
PhoneDashed == <<"5", "5", "5", "-", "1", "2", "3", "-", "4", "5", "6", "7">>
PhoneShort == <<"5", "5", "5">>
UsernameGood == <<"u", "s", "e", "r">>
UsernameSpaced == <<"a", "b", " ", "c", "d">>
PasswordGood == <<"p", "a", "s", "s", "w", "o", "r", "d">>
PasswordShort == <<"p", "w">>

EmailValues == {NoText, EmailOne, EmailNoAt}
PhoneValues == {NoText, PhoneDashed, PhoneShort}
UsernameValues == {NoText, UsernameGood, UsernameSpaced}
PasswordValues == {NoText, PasswordGood, PasswordShort}

-----------------------------------------------------------------------------
(* RegexUtil: modelled from the specification's validation semantics. *)

MIN_USERNAME_LENGTH == 4
MIN_PASSWORD_LENGTH == 8
PHONE_DIGITS == 10

Digits == {"0", "1", "2", "3", "4", "5", "6", "7", "8", "9"}
PhoneSeparators == {"-", " ", "(", ")", "."}
Whitespace == {" "}

IsDigit(c) == c \in Digits

\* local@domain.tld: one "@", a non-empty local part, a domain with a
\* dot-separated suffix, no whitespace.
isValidEmailFormat(s) ==
    /\ \A k \in 1..Len(s) : s[k] \notin Whitespace
    /\ \E i \in 2..Len(s) :
          /\ s[i] = "@"
          /\ \A k \in 1..Len(s) : s[k] = "@" => k = i
          /\ \E j \in (i + 2)..(Len(s) - 1) : s[j] = "."

\* digits with optional separators and parentheses, ten digits in all.
isValidPhoneFormat(s) ==
    /\ \A k \in 1..Len(s) : s[k] \in Digits \cup PhoneSeparators
    /\ Len(SelectSeq(s, IsDigit)) = PHONE_DIGITS

\* no whitespace and at least MIN_USERNAME_LENGTH characters.
isValidUsernameFormat(s) ==
    /\ Len(s) >= MIN_USERNAME_LENGTH
    /\ \A k \in 1..Len(s) : s[k] \notin Whitespace

\* at least MIN_PASSWORD_LENGTH characters.
isValidPasswordFormat(s) == Len(s) >= MIN_PASSWORD_LENGTH

-----------------------------------------------------------------------------
(* ERROR_MESSAGES: a message is its key, followed by the minimum length    *)
(* the code appends to the two parameterised messages.                     *)

EXISTING_CREDENTIALS_ERROR == <<"EXISTING_CREDENTIALS_ERROR">>
INVALID_EMAIL_ERROR == <<"INVALID_EMAIL_ERROR">>
INVALID_PHONE_ERROR == <<"INVALID_PHONE_ERROR">>
INVALID_USERNAME_ERROR == <<"INVALID_USERNAME_ERROR", MIN_USERNAME_LENGTH>>
INVALID_PASSWORD_ERROR == <<"INVALID_PASSWORD_ERROR", MIN_PASSWORD_LENGTH>>
GENERIC_SERVER_ERROR == <<"GENERIC_SERVER_ERROR">>

ERROR_MESSAGES ==
    { EXISTING_CREDENTIALS_ERROR, INVALID_EMAIL_ERROR, INVALID_PHONE_ERROR,
      INVALID_USERNAME_ERROR, INVALID_PASSWORD_ERROR, GENERIC_SERVER_ERROR }

-----------------------------------------------------------------------------
(* Outcomes of the axios.post promise. *)

\* resolved: the promise fulfilled (2xx).  Otherwise it rejected with err;
\* hasResponse says whether err.response is set, status is err.response.status.
Fulfilled == [resolved |-> TRUE, hasResponse |-> TRUE, status |-> 200]
FailedWith(code) == [resolved |-> FALSE, hasResponse |-> TRUE, status |-> code]
NetworkError == [resolved |-> FALSE, hasResponse |-> FALSE, status |-> 0]
NoReply == [resolved |-> FALSE, hasResponse |-> FALSE, status |-> 1]

Replies == {Fulfilled, FailedWith(403), FailedWith(500), NetworkError}

LoginCall == [to |-> "LOGIN", state |-> [justRegistered |-> TRUE]]

-----------------------------------------------------------------------------
VARIABLES
    email, phone, password, username,   \* useState credentials
    isValidCredentials,                 \* useState: FALSE shows errorMessage
    clickedGetStarted,                  \* useState: detail fields revealed
    errorMessage,                       \* useState: the message to display
    inFlight,                           \* bodies of the POSTs not yet settled
    navigateCalls,                      \* the calls made to navigate()
    location,                           \* the route the router displays
    event,                              \* the handler that ran last, and its input
    overtaken                           \* per request in flight: was a request
                                        \* started after it answered already

vars == << email, phone, password, username, isValidCredentials,
           clickedGetStarted, errorMessage, inFlight, navigateCalls,
           location, event, overtaken >>

fields == << email, phone, password, username >>
flow == << isValidCredentials, clickedGetStarted, errorMessage >>
network == << inFlight, navigateCalls, location >>

Ev(op) == [op |-> op, reply |-> NoReply, late |-> FALSE]

Init ==
    /\ email = NoText
    /\ phone = NoText
    /\ password = NoText
    /\ username = NoText
    /\ isValidCredentials = TRUE
    /\ clickedGetStarted = FALSE
    /\ errorMessage = EXISTING_CREDENTIALS_ERROR
    /\ inFlight = << >>
    /\ navigateCalls = << >>
    /\ location = "REGISTER"
    /\ event = Ev("mount")
    /\ overtaken = << >>

-----------------------------------------------------------------------------
(* Helpers *)

RemoveAt(seq, i) == SubSeq(seq, 1, i - 1) \o SubSeq(seq, i + 1, Len(seq))

Credentials == [username |-> username, email |-> email,
                phone |-> phone, password |-> password]

\* The page is displayed: its handlers can be triggered.
Mounted == location = "REGISTER"

isEmailBoxFilled == Len(email) > 0

-----------------------------------------------------------------------------
(* handleRegister and performRegister *)

NoFailure == << >>

\* The chain with the phone and username checks exchanged.
FirstFailureUsernameFirst(e, ph, u, pw) ==
    IF ~isValidEmailFormat(e) THEN INVALID_EMAIL_ERROR
    ELSE IF ~isValidUsernameFormat(u) THEN INVALID_USERNAME_ERROR
    ELSE IF ~isValidPhoneFormat(ph) THEN INVALID_PHONE_ERROR
    ELSE IF ~isValidPasswordFormat(pw) THEN INVALID_PASSWORD_ERROR
    ELSE NoFailure

\* The validation chain of handleRegister: the message of the first rule
\* that fails, in the order email, phone, username, password.
FirstFailure(e, ph, u, pw) ==
    IF ~isValidEmailFormat(e) THEN INVALID_EMAIL_ERROR
    ELSE IF ~isValidPhoneFormat(ph) THEN INVALID_PHONE_ERROR
    ELSE IF ~isValidUsernameFormat(u) THEN INVALID_USERNAME_ERROR
    ELSE IF ~isValidPasswordFormat(pw) THEN INVALID_PASSWORD_ERROR
    ELSE NoFailure

\* performRegister sending the username and email under each other's key.
performRegisterSwapped ==
    /\ Len(inFlight) < MaxInFlight
    /\ inFlight' = Append(inFlight, [username |-> email, email |-> username,
                                      phone |-> phone, password |-> password])

\* performRegister up to its await: the POST leaves with the credentials of
\* the render that handled the event.
performRegister ==
    /\ Len(inFlight) < MaxInFlight
    /\ inFlight' = Append(inFlight, Credentials)

\* handleRegister whose username branch forgets setErrorMessage.
handleRegisterStaleMessage ==
    LET failure == FirstFailure(email, phone, username, password) IN
    /\ IF failure # NoFailure
       THEN /\ isValidCredentials' = FALSE
            /\ errorMessage' = (IF failure = INVALID_USERNAME_ERROR
                                THEN errorMessage ELSE failure)
            /\ UNCHANGED inFlight
       ELSE /\ isValidCredentials' = TRUE
            /\ performRegister
            /\ UNCHANGED errorMessage
    /\ UNCHANGED << fields, clickedGetStarted, navigateCalls, location >>

\* handleRegister whose password branch forgets its return.
handleRegisterNoReturn ==
    LET failure == FirstFailure(email, phone, username, password) IN
    /\ IF failure # NoFailure
       THEN /\ isValidCredentials' = FALSE
            /\ errorMessage' = failure
            /\ IF failure = INVALID_PASSWORD_ERROR
               THEN performRegister
               ELSE UNCHANGED inFlight
       ELSE /\ isValidCredentials' = TRUE
            /\ performRegister
            /\ UNCHANGED errorMessage
    /\ UNCHANGED << fields, clickedGetStarted, navigateCalls, location >>

\* handleRegister without the reset of the error flag at its start.
handleRegisterNoReset ==
    LET failure == FirstFailure(email, phone, username, password) IN
    /\ IF failure # NoFailure
       THEN /\ isValidCredentials' = FALSE
            /\ errorMessage' = failure
            /\ UNCHANGED inFlight
       ELSE /\ performRegister
            /\ UNCHANGED << isValidCredentials, errorMessage >>
    /\ UNCHANGED << fields, clickedGetStarted, navigateCalls, location >>

handleRegister ==
    LET failure == FirstFailure(email, phone, username, password) IN
    /\ IF failure # NoFailure
       THEN /\ isValidCredentials' = FALSE
            /\ errorMessage' = failure
            /\ UNCHANGED inFlight
       ELSE /\ isValidCredentials' = TRUE
            /\ performRegister
            /\ UNCHANGED errorMessage
    /\ UNCHANGED << fields, clickedGetStarted, navigateCalls, location >>

\* The catch block testing for 409 instead of 403.
CatchMessageConflict409(reply) ==
    IF reply.hasResponse /\ reply.status = 409
    THEN EXISTING_CREDENTIALS_ERROR
    ELSE GENERIC_SERVER_ERROR

\* The catch block testing only for the presence of err.response.
CatchMessageAnyResponse(reply) ==
    IF reply.hasResponse
    THEN EXISTING_CREDENTIALS_ERROR
    ELSE GENERIC_SERVER_ERROR

\* The catch block's choice of message.
CatchMessage(reply) ==
    IF reply.hasResponse /\ reply.status = 403
    THEN EXISTING_CREDENTIALS_ERROR
    ELSE GENERIC_SERVER_ERROR

\* The continuation navigating without the justRegistered state.
performRegisterResumeNoState(i, reply) ==
    /\ inFlight' = RemoveAt(inFlight, i)
    /\ IF reply.resolved
       THEN /\ navigateCalls' = Append(navigateCalls, [to |-> "LOGIN", state |-> [justRegistered |-> FALSE]])
            /\ location' = "LOGIN"
            /\ UNCHANGED << isValidCredentials, errorMessage >>
       ELSE /\ errorMessage' = CatchMessage(reply)
            /\ isValidCredentials' = FALSE
            /\ UNCHANGED << navigateCalls, location >>
    /\ UNCHANGED << fields, clickedGetStarted >>

\* The continuation whose catch block forgets setIsValidCredentials(false).
performRegisterResumeKeepsFlag(i, reply) ==
    /\ inFlight' = RemoveAt(inFlight, i)
    /\ IF reply.resolved
       THEN /\ navigateCalls' = Append(navigateCalls, LoginCall)
            /\ location' = "LOGIN"
            /\ UNCHANGED << isValidCredentials, errorMessage >>
       ELSE /\ errorMessage' = CatchMessage(reply)
            /\ UNCHANGED << isValidCredentials, navigateCalls, location >>
    /\ UNCHANGED << fields, clickedGetStarted >>

\* The continuation navigating after the catch block as well.
performRegisterResumeAlwaysNavigates(i, reply) ==
    /\ inFlight' = RemoveAt(inFlight, i)
    /\ navigateCalls' = Append(navigateCalls, LoginCall)
    /\ location' = "LOGIN"
    /\ IF reply.resolved
       THEN UNCHANGED << isValidCredentials, errorMessage >>
       ELSE /\ errorMessage' = CatchMessage(reply)
            /\ isValidCredentials' = FALSE
    /\ UNCHANGED << fields, clickedGetStarted >>

\* performRegister after its await, for the i-th request in flight.  The
\* continuation runs as written whether or not the page is still displayed.
performRegisterResume(i, reply) ==
    /\ inFlight' = RemoveAt(inFlight, i)
    /\ IF reply.resolved
       THEN /\ navigateCalls' = Append(navigateCalls, LoginCall)
            /\ location' = "LOGIN"
            /\ UNCHANGED << isValidCredentials, errorMessage >>
       ELSE /\ errorMessage' = CatchMessage(reply)
            /\ isValidCredentials' = FALSE
            /\ UNCHANGED << navigateCalls, location >>
    /\ UNCHANGED << fields, clickedGetStarted >>

-----------------------------------------------------------------------------
(* handleGetStarted *)

\* handleGetStarted without the isEmailBoxFilled test.
handleGetStartedUnchecked ==
    IF clickedGetStarted
    THEN handleRegister
    ELSE /\ clickedGetStarted' = TRUE
         /\ UNCHANGED << fields, isValidCredentials, errorMessage, network >>

\* handleGetStarted validating the email before it reveals the fields.
handleGetStartedValidating ==
    IF clickedGetStarted
    THEN handleRegister
    ELSE /\ clickedGetStarted' = (isEmailBoxFilled /\ isValidEmailFormat(email))
         /\ isValidCredentials' = (IF isEmailBoxFilled /\ ~isValidEmailFormat(email)
                                   THEN FALSE ELSE isValidCredentials)
         /\ errorMessage' = (IF isEmailBoxFilled /\ ~isValidEmailFormat(email)
                             THEN INVALID_EMAIL_ERROR ELSE errorMessage)
         /\ UNCHANGED << fields, network >>

\* handleGetStarted with the isEmailBoxFilled test negated.
handleGetStartedInverted ==
    IF clickedGetStarted
    THEN handleRegister
    ELSE /\ clickedGetStarted' = (IF ~isEmailBoxFilled THEN TRUE ELSE clickedGetStarted)
         /\ UNCHANGED << fields, isValidCredentials, errorMessage, network >>

handleGetStarted ==
    IF clickedGetStarted
    THEN handleRegister
    ELSE /\ clickedGetStarted' = (IF isEmailBoxFilled THEN TRUE ELSE clickedGetStarted)
         /\ UNCHANGED << fields, isValidCredentials, errorMessage, network >>

-----------------------------------------------------------------------------
(* Events *)

\* A request issued by the step starts as not overtaken.
TrackIssued ==
    overtaken' = (IF Len(inFlight') > Len(inFlight)
                  THEN Append(overtaken, FALSE) ELSE overtaken)

\* The i-th request is answered: it leaves, and the requests started before
\* it are overtaken from now on.
TrackAnswered(i) ==
    overtaken' = RemoveAt([k \in DOMAIN overtaken |-> overtaken[k] \/ k < i], i)

\* "Get Started" button, or Enter in the email or phone input.
GetStarted ==
    /\ Mounted
    /\ handleGetStarted
    /\ event' = Ev("getStarted")
    /\ TrackIssued

\* "Sign Up" button of the form, shown once clickedGetStarted.
SignUp ==
    /\ Mounted
    /\ clickedGetStarted
    /\ handleRegister
    /\ event' = Ev("signUp")
    /\ TrackIssued

\* setEmail whose onChange also resets the error flag.
SetEmailClearsError(v) ==
    /\ Mounted
    /\ email' = v
    /\ isValidCredentials' = TRUE
    /\ event' = Ev("setEmail")
    /\ UNCHANGED << phone, password, username, clickedGetStarted,
                    errorMessage, network, overtaken >>

\* setEmail whose onChange hides the detail fields again on an empty box.
SetEmailHidesOnEmpty(v) ==
    /\ Mounted
    /\ email' = v
    /\ clickedGetStarted' = (clickedGetStarted /\ Len(v) > 0)
    /\ event' = Ev("setEmail")
    /\ UNCHANGED << phone, password, username, isValidCredentials,
                    errorMessage, network, overtaken >>

SetEmail(v) ==
    /\ Mounted
    /\ email' = v
    /\ event' = Ev("setEmail")
    /\ UNCHANGED << phone, password, username, flow, network, overtaken >>

SetPhone(v) ==
    /\ Mounted
    /\ clickedGetStarted
    /\ phone' = v
    /\ event' = Ev("setPhone")
    /\ UNCHANGED << email, password, username, flow, network, overtaken >>

SetUsername(v) ==
    /\ Mounted
    /\ clickedGetStarted
    /\ username' = v
    /\ event' = Ev("setUsername")
    /\ UNCHANGED << email, phone, password, flow, network, overtaken >>

SetPassword(v) ==
    /\ Mounted
    /\ clickedGetStarted
    /\ password' = v
    /\ event' = Ev("setPassword")
    /\ UNCHANGED << email, phone, username, flow, network, overtaken >>

\* The promise of the i-th request in flight settles with reply.
Response(i, reply) ==
    /\ performRegisterResume(i, reply)
    /\ event' = [op |-> "response", reply |-> reply, late |-> overtaken[i]]
    /\ TrackAnswered(i)

Next ==
    \/ GetStarted
    \/ SignUp
    \/ \E v \in EmailValues : SetEmail(v)
    \/ \E v \in PhoneValues : SetPhone(v)
    \/ \E v \in UsernameValues : SetUsername(v)
    \/ \E v \in PasswordValues : SetPassword(v)
    \/ \E i \in DOMAIN inFlight : \E reply \in Replies : Response(i, reply)

Spec == Init /\ [][Next]_vars

\* The client answers every request: the promise of the oldest request in
\* flight eventually settles, so each request's turn comes.
ClientAnswers ==
    WF_vars(inFlight # << >> /\ \E reply \in Replies : Response(1, reply))

FairSpec == Spec /\ ClientAnswers

-----------------------------------------------------------------------------
(* The flow states of the specification, read off the component's state. *)

CollectingEmail == ~clickedGetStarted
Submitting == inFlight # << >>
Rejected == ~isValidCredentials

\* The step is a call of submit(): the Sign Up button, or advance() once the
\* detail fields are revealed.
SubmitStep ==
    \/ event'.op = "signUp"
    \/ event'.op = "getStarted" /\ clickedGetStarted

\* After the step, message m is the one displayed.
Shows(m) == ~isValidCredentials' /\ errorMessage' = m

\* The step issued the register request for the current credentials.
Proceeds == isValidCredentials' /\ inFlight' = Append(inFlight, Credentials)

\* The step ended in validation message m and issued nothing.
Yields(m) == Shows(m) /\ inFlight' = inFlight

ValidationMessages ==
    { INVALID_EMAIL_ERROR, INVALID_PHONE_ERROR,
      INVALID_USERNAME_ERROR, INVALID_PASSWORD_ERROR }

AllValid ==
    /\ isValidEmailFormat(email)
    /\ isValidPhoneFormat(phone)
    /\ isValidUsernameFormat(username)
    /\ isValidPasswordFormat(password)

-----------------------------------------------------------------------------
\* C1: submit() applies the rules in the order email, phone, username,
\* password, and the first rule that fails alone decides the message: an
\* invalid email yields InvalidEmail whatever the other three fields hold, a
\* valid email with an invalid phone yields InvalidPhone, valid email and
\* phone with an invalid username yields InvalidUsername, and InvalidPassword
\* is yielded only when email, phone and username are all valid.
C1_FirstFailingRuleDecides ==
    [][ SubmitStep =>
          /\ ~isValidEmailFormat(email) => Shows(INVALID_EMAIL_ERROR)
          /\ isValidEmailFormat(email) /\ ~isValidPhoneFormat(phone)
                => Shows(INVALID_PHONE_ERROR)
          /\ isValidEmailFormat(email) /\ isValidPhoneFormat(phone)
                /\ ~isValidUsernameFormat(username)
                => Shows(INVALID_USERNAME_ERROR)
          /\ Shows(INVALID_PASSWORD_ERROR)
                => /\ isValidEmailFormat(email)
                   /\ isValidPhoneFormat(phone)
                   /\ isValidUsernameFormat(username)
                   /\ ~isValidPasswordFormat(password) ]_vars

\* A submit() just ran on a valid email, an invalid phone, an invalid
\* username and an invalid password, and the phone message is displayed.
C1_Witness ==
    /\ event.op = "signUp"
    /\ isValidEmailFormat(email)
    /\ ~isValidPhoneFormat(phone)
    /\ ~isValidUsernameFormat(username)
    /\ ~isValidPasswordFormat(password)
    /\ ~isValidCredentials
    /\ errorMessage = INVALID_PHONE_ERROR

\* C2: validation is total: every submit() call ends in exactly one of the
\* five outcomes proceed-to-submit, InvalidEmail, InvalidPhone,
\* InvalidUsername, InvalidPassword.
C2_ValidationTotal ==
    [][ SubmitStep =>
          Cardinality({ m \in ValidationMessages : Yields(m) }
                      \cup (IF Proceeds THEN {NoFailure} ELSE {})) = 1 ]_vars

\* A submit() just ran on a short password with the other fields valid and
\* ended in the password message, with no request issued.
C2_Witness ==
    /\ event.op = "signUp"
    /\ isValidEmailFormat(email)
    /\ isValidPhoneFormat(phone)
    /\ isValidUsernameFormat(username)
    /\ password = PasswordShort
    /\ ~isValidCredentials
    /\ errorMessage = INVALID_PASSWORD_ERROR
    /\ inFlight = << >>

\* C3: a register request is issued only by a submit() whose four rules all
\* passed, and a submit() that ends in a validation message issues none.
C3_ValidatedBeforeRequest ==
    [][ /\ Len(inFlight') > Len(inFlight)
            => SubmitStep /\ AllValid /\ inFlight' = Append(inFlight, Credentials)
        /\ SubmitStep /\ ~AllValid
            => inFlight' = inFlight /\ \E m \in ValidationMessages : Shows(m)
      ]_vars

\* A submit() just ran on an invalid username while an earlier request is
\* still awaiting its answer: it added no request.
C3_Witness ==
    /\ event.op = "signUp"
    /\ username = UsernameSpaced
    /\ isValidEmailFormat(email)
    /\ isValidPhoneFormat(phone)
    /\ errorMessage = INVALID_USERNAME_ERROR
    /\ ~isValidCredentials
    /\ Len(inFlight) = 1

\* C4: at most one submission is outstanding at a time: the number of
\* register requests issued and not yet answered never exceeds 1.
C4_AtMostOneOutstanding == Len(inFlight) <= 1

\* The step is the continuation of performRegister for a settled request.
ResponseStep == event'.op = "response"

\* The request answered by the step carried four valid fields.
AnsweredValid ==
    \E i \in DOMAIN inFlight :
        /\ inFlight' = RemoveAt(inFlight, i)
        /\ FirstFailure(inFlight[i].email, inFlight[i].phone,
                        inFlight[i].username, inFlight[i].password) = NoFailure

\* C5: when the register request of a valid submission succeeds, exactly one
\* Navigator.goTo call is made, to login with payload justRegistered = true,
\* and the flow does not become Rejected.
C5_SuccessNavigatesOnce ==
    [][ ResponseStep /\ event'.reply.resolved =>
          /\ AnsweredValid
          /\ navigateCalls' = Append(navigateCalls, LoginCall)
          /\ location' = "LOGIN"
          /\ isValidCredentials' = isValidCredentials
          /\ errorMessage' = errorMessage ]_vars

\* The one request of the flow was answered with success: one navigation to
\* login has been made and no message is displayed.
C5_Witness ==
    /\ event.op = "response"
    /\ event.reply = Fulfilled
    /\ navigateCalls = << LoginCall >>
    /\ location = "LOGIN"
    /\ inFlight = << >>
    /\ isValidCredentials

\* C6: when the register request of a valid submission fails with status
\* 403, the flow becomes Rejected(ExistingCredentials), the message being
\* visible, and no navigation occurs.
C6_ConflictRejected ==
    [][ /\ ResponseStep
        /\ ~event'.reply.resolved
        /\ event'.reply.hasResponse
        /\ event'.reply.status = 403
        => /\ AnsweredValid
           /\ Shows(EXISTING_CREDENTIALS_ERROR)
           /\ navigateCalls' = navigateCalls
           /\ location' = location ]_vars

\* A request was answered 403 after a validation message had been displayed
\* by a later submit(): the conflict message replaced it.
C6_Witness ==
    /\ event.op = "response"
    /\ event.reply = FailedWith(403)
    /\ ~isValidCredentials
    /\ errorMessage = EXISTING_CREDENTIALS_ERROR
    /\ ~isValidEmailFormat(email)
    /\ navigateCalls = << >>
    /\ location = "REGISTER"

\* C7: when the register request of a valid submission fails in any way
\* other than status 403 (another status code, or a transport failure with
\* no response), the flow becomes Rejected(GenericServerError) and no
\* navigation occurs.
C7_OtherFailureGeneric ==
    [][ /\ ResponseStep
        /\ ~event'.reply.resolved
        /\ ~(event'.reply.hasResponse /\ event'.reply.status = 403)
        => /\ AnsweredValid
           /\ Shows(GENERIC_SERVER_ERROR)
           /\ navigateCalls' = navigateCalls
           /\ location' = location ]_vars

\* A request was answered with status 500: the generic message is displayed
\* and nothing was navigated.
C7_Witness ==
    /\ event.op = "response"
    /\ event.reply = FailedWith(500)
    /\ ~isValidCredentials
    /\ errorMessage = GENERIC_SERVER_ERROR
    /\ navigateCalls = << >>
    /\ location = "REGISTER"

\* C8: advance() is a no-op in CollectingEmail with an empty email field:
\* the state stays CollectingEmail, the detail fields stay hidden, the error
\* state is unchanged and no register request is issued.
C8_AdvanceEmptyNoOp ==
    [][ event'.op = "getStarted" /\ CollectingEmail /\ Len(email) = 0 =>
          UNCHANGED << fields, flow, network >> ]_vars

\* advance() just ran on an empty email field and the flow is still in
\* CollectingEmail.
C8_Witness ==
    /\ event.op = "getStarted"
    /\ email = NoText
    /\ CollectingEmail
    /\ isValidCredentials
    /\ inFlight = << >>

C10_MessageOnlyWhenRejected ==
    /\ CollectingEmail => isValidCredentials
    /\ Submitting => isValidCredentials
    /\ Rejected => errorMessage \in ERROR_MESSAGES

-----------------------------------------------------------------------------
SetterOps == {"setEmail", "setPhone", "setUsername", "setPassword"}

\* The step is a call of one of the four field setters.
SetterStep == event'.op \in SetterOps

\* C11: the field setters change only their own field: they leave the flow
\* state, the error visibility and the error message unchanged (a displayed
\* error stays displayed), and a setter called with the value the field
\* already holds changes nothing.
C11_SettersChangeOwnFieldOnly ==
    [][ SetterStep =>
          /\ UNCHANGED << flow, network >>
          /\ event'.op # "setEmail" => email' = email
          /\ event'.op # "setPhone" => phone' = phone
          /\ event'.op # "setUsername" => username' = username
          /\ event'.op # "setPassword" => password' = password ]_vars

\* The email was corrected after a submit() rejected it: the email message
\* is still displayed.
C11_Witness ==
    /\ event.op = "setEmail"
    /\ isValidEmailFormat(email)
    /\ ~isValidCredentials
    /\ errorMessage = INVALID_EMAIL_ERROR

\* The detail fields (phone, username, password) are rendered visible.
DetailFieldsVisible == clickedGetStarted

\* C12: in every reachable state the detail fields are rendered only if the
\* email field is non-empty and the user has advanced past CollectingEmail.
C12_DetailsOnlyWithEmail ==
    DetailFieldsVisible => Len(email) > 0 /\ ~CollectingEmail

\* C12 as amended: the detail fields become visible only by an advance()
\* made in CollectingEmail while the email field is non-empty; the field
\* may be emptied afterwards.
C12_DetailsRevealedWithEmail ==
    [][ ~DetailFieldsVisible /\ DetailFieldsVisible' =>
          /\ event'.op = "getStarted"
          /\ Len(email) > 0
          /\ email' = email ]_vars

\* advance() just revealed the detail fields for a non-empty email.
C12_Witness ==
    /\ event.op = "getStarted"
    /\ DetailFieldsVisible
    /\ Len(email) > 0
    /\ isValidCredentials
    /\ inFlight = << >>
    /\ navigateCalls = << >>

\* C13: no error is fatal: in every Rejected state of the displayed page the
\* Sign Up control is available, and once the four fields hold valid values
\* a submit() made in a Rejected state clears the error, passes validation
\* and issues a register request.
C13_RetryAfterRejection ==
    [][ /\ Rejected' /\ Mounted' => clickedGetStarted'
        /\ SubmitStep /\ Rejected /\ AllValid => Proceeds ]_vars

\* A submit() just issued a request after the server had rejected an
\* earlier one: the generic message is set but hidden again.
C13_Witness ==
    /\ event.op = "signUp"
    /\ isValidCredentials
    /\ errorMessage = GENERIC_SERVER_ERROR
    /\ inFlight = << Credentials >>

\* C14: the detail fields are displayed only when the user clicks next
\* after entering a valid email: the email in the field at the advance()
\* that revealed them satisfied the email format rule.
C14_RevealedOnlyForValidEmail ==
    [][ ~DetailFieldsVisible /\ DetailFieldsVisible' =>
          isValidEmailFormat(email) ]_vars

\* C16: navigation to login happens only as the effect of a successful
\* register response: every step that adds a Navigator.goTo call or leaves
\* the page is the continuation of a fulfilled request and adds exactly one
\* call, so the calls never outnumber the successful responses; no
\* validation failure, failed response, setter or advance() navigates.
C16_NavigationOnlyOnSuccess ==
    [][ navigateCalls' # navigateCalls \/ location' # location =>
          /\ ResponseStep
          /\ event'.reply.resolved
          /\ navigateCalls' = Append(navigateCalls, LoginCall) ]_vars

\* Two requests were in flight and both were fulfilled: two navigations,
\* one for each.
C16_Witness ==
    /\ event.op = "response"
    /\ event.reply.resolved
    /\ navigateCalls = << LoginCall, LoginCall >>
    /\ inFlight = << >>

\* The request body satisfies the four rules.
ValidBody(b) == FirstFailure(b.email, b.phone, b.username, b.password) = NoFailure

\* C18: the body of each register request carries exactly the username,
\* email, phone and password that the triggering submit() validated; field
\* setters called while it is in flight do not change it, so every request
\* issued contains four values that satisfy their rules.
C18_BodyIsWhatWasValidated ==
    /\ [](\A i \in DOMAIN inFlight : ValidBody(inFlight[i]))
    /\ [][ /\ (Len(inFlight') > Len(inFlight)
                  => inFlight' = Append(inFlight, Credentials))
            /\ (SetterStep => inFlight' = inFlight) ]_vars

\* The email field was overwritten with a malformed value while a request
\* is in flight: the request still carries the validated email.
C18_Witness ==
    /\ event.op = "setEmail"
    /\ ~isValidEmailFormat(email)
    /\ Len(inFlight) = 1
    /\ inFlight[1].email = EmailOne
    /\ ValidBody(inFlight[1])

\* C19: revealing the detail fields is irreversible: once clickedGetStarted
\* is true no setter (emptying the email field included), advance(),
\* submit() or server response makes it false or hides the fields again.
C19_RevealIrreversible ==
    [][ DetailFieldsVisible => DetailFieldsVisible' /\ ~CollectingEmail' ]_vars

\* The email field was emptied after the reveal and the detail fields are
\* still visible.
C19_Witness ==
    /\ event.op = "setEmail"
    /\ email = NoText
    /\ DetailFieldsVisible
    /\ phone = PhoneDashed

\* The continuation of a request just ran and ended in the navigation to
\* login (fulfilled) or in a Rejected flow (failed).
Resumed ==
    /\ event.op = "response"
    /\ IF event.reply.resolved
       THEN location = "LOGIN" /\ navigateCalls # << >>
       ELSE Rejected

\* C15: every submission that passed validation eventually resumes:
\* provided the client answers each request, a flow with a request in
\* flight eventually performs the navigation to login or becomes Rejected
\* by the answer of a request; it never stays suspended forever.
C15_SubmissionResumes == Submitting ~> Resumed

\* The one request in flight met a transport failure with no response: the
\* flow left Submitting for Rejected.
C15_Witness ==
    /\ event.op = "response"
    /\ event.reply = NetworkError
    /\ Rejected
    /\ ~Submitting
    /\ location = "REGISTER"

\* C17: when a second submit() is triggered while an earlier submission is
\* in flight, the flow state and message after both answers are those of
\* the submission started last, whatever the order of the answers: the
\* failure of a request answered after a request started later than it
\* never overwrites the flag or the message.
C17_LateFailureDoesNotOverwrite ==
    [][ ResponseStep /\ event'.late /\ ~event'.reply.resolved =>
          UNCHANGED << isValidCredentials, errorMessage >> ]_vars

====
